---- MODULE Spec2Model ----
(***************************************************************************)
(* A model of the Tayara.tn scraper API (src/api.py): the URL builder, the *)
(* listing and detail extractors, the pagination controller and the two    *)
(* HTTP handlers.                                                          *)
(*                                                                         *)
(* Text is modelled as a sequence of one-character strings, so that        *)
(* strip(), split(','), startswith() and quote() are computed, not         *)
(* assumed.  An Optional value is None (the empty tuple) or Some(x) (the   *)
(* one-element tuple holding x).                                           *)
(***************************************************************************)
EXTENDS Naturals, Sequences, FiniteSets, TLC

VARIABLES
    pc,            \* position of the request being handled
    req,           \* the request's parameters
    resp,          \* the HTTP response, None until the handler answers
    all_products,  \* scrape_products: the running aggregate
    current_page,  \* scrape_products: the page index
    url,           \* the URL handed to the page scrape / detail extractor
    open,          \* number of browsers launched and not yet closed
    page,          \* the DOM of the page the browser has loaded
    ret,           \* pending return value of the extractor (products / Product)
    exc,           \* pending exception of the extractor, None if none
    log,           \* history: one entry per page scrape of this search, with
                   \* what line 216 logs of a failure
    navs,          \* history: URLs passed to goto while handling this request
    launches,      \* history: browsers launched while handling this request
    call           \* a direct call of a pure function: its arguments and result

vars == <<pc, req, resp, all_products, current_page, url, open, page, ret,
          exc, log, navs, launches, call>>

-----------------------------------------------------------------------------
(* Bounds of the model *)

MaxPages == 3
MaxLocLen == 4
MaxCards == 3

-----------------------------------------------------------------------------
(* Optional values and text helpers *)

None == << >>
Some(x) == <<x>>
IsSome(o) == o # << >>
Get(o) == o[1]

Whitespace == {" ", "\n"}

RECURSIVE lstrip(_)
lstrip(s) == IF s = << >> \/ Head(s) \notin Whitespace THEN s ELSE lstrip(Tail(s))

RECURSIVE rstrip(_)
rstrip(s) ==
    IF s = << >> \/ s[Len(s)] \notin Whitespace THEN s
    ELSE rstrip(SubSeq(s, 1, Len(s) - 1))

\* str.strip()
strip(s) == rstrip(lstrip(s))

\* str.startswith(prefix)
startswith(s, prefix) ==
    /\ Len(prefix) <= Len(s)
    /\ SubSeq(s, 1, Len(prefix)) = prefix

\* index of the first occurrence of sub in s, 0 if there is none
find(s, sub) ==
    LET hits == {i \in 1..(Len(s) + 1) :
                    /\ i + Len(sub) - 1 <= Len(s)
                    /\ SubSeq(s, i, i + Len(sub) - 1) = sub}
    IN IF hits = {} THEN 0 ELSE CHOOSE i \in hits : \A j \in hits : i <= j

\* str.split(','): every comma separates; a text without comma gives <<s>>
RECURSIVE split(_)
split(s) ==
    LET i == find(s, <<",">>)
    IN IF i = 0 THEN <<s>>
       ELSE <<SubSeq(s, 1, i - 1)>> \o split(SubSeq(s, i + 1, Len(s)))

\* re.sub(r'\s+', ' ', s)
RECURSIVE collapse(_)
collapse(s) ==
    IF s = << >> THEN << >>
    ELSE IF Head(s) \in Whitespace
         THEN <<" ">> \o collapse(lstrip(s))
         ELSE <<Head(s)>> \o collapse(Tail(s))

RECURSIVE Flatten(_)
Flatten(ss) == IF ss = << >> THEN << >> ELSE Head(ss) \o Flatten(Tail(ss))

\* sep.join(parts)
RECURSIVE join(_, _)
join(sep, parts) ==
    IF parts = << >> THEN << >>
    ELSE IF Len(parts) = 1 THEN parts[1]
    ELSE parts[1] \o sep \o join(sep, Tail(parts))

\* str(n) as text, for the numbers the model uses
Digits(n) == IF n < 10 THEN <<ToString(n)>>
             ELSE <<ToString(n \div 10), ToString(n % 10)>>

-----------------------------------------------------------------------------
(* URL Builder *)

SITE == <<"h", "t", "t", "p", "s", ":", "/", "/", "w", "w", "w", ".",
          "t", "a", "y", "a", "r", "a", ".", "t", "n">>
BASE_URL == SITE \o <<"/", "a", "d", "s">>

\* urllib.parse.quote of one character: letters, digits and "_.-~" are kept,
\* "/" is kept too (quote's default safe="/"), anything else is %XX
quoteChar(c) ==
    CASE c = " " -> <<"%", "2", "0">>
      [] c = "?" -> <<"%", "3", "F">>
      [] c = "%" -> <<"%", "2", "5">>
      [] c = "&" -> <<"%", "2", "6">>
      [] OTHER   -> <<c>>

quote(s) == Flatten([i \in 1..Len(s) |-> quoteChar(s[i])])

\* Python truthiness of an Optional[str]: neither None nor ""
Truthy(o) == IsSome(o) /\ Get(o) # << >>

path_segments(category, subcategory, city, condition, query) ==
       (IF Truthy(category) THEN << <<"c", "/">> \o quote(Get(category)) >> ELSE << >>)
    \o (IF Truthy(subcategory) THEN << quote(Get(subcategory)) >> ELSE << >>)
    \o (IF Truthy(city) THEN << <<"l", "/">> \o quote(Get(city)) >> ELSE << >>)
    \o (IF Truthy(condition) THEN << <<"t", "/">> \o quote(Get(condition)) >> ELSE << >>)
    \o (IF Truthy(query) THEN << <<"k", "/">> \o quote(Get(query)) >> ELSE << >>)

url_params(min_price, max_price, pg) ==
       (IF IsSome(min_price) THEN << <<"minPrice=">> \o Digits(Get(min_price)) >> ELSE << >>)
    \o (IF IsSome(max_price) THEN << <<"maxPrice=">> \o Digits(Get(max_price)) >> ELSE << >>)
    \o (IF IsSome(pg) /\ Get(pg) # 0 THEN << <<"page=">> \o Digits(Get(pg)) >> ELSE << >>)

build_url(query, category, subcategory, city, condition, min_price, max_price, pg) ==
    LET segs == path_segments(category, subcategory, city, condition, query)
        base == BASE_URL \o <<"/">> \o join(<<"/">>, segs) \o <<"/">>
        params == url_params(min_price, max_price, pg)
    IN IF params # << >> THEN base \o <<"?">> \o join(<<"&">>, params) ELSE base

-----------------------------------------------------------------------------
(* Product, and the Listing Extractor *)

\* class Product with its defaults; title and product_url are required text
Product(title, price, location, date_posted, image_url, product_url, description, seller_name, seller_contact, is_delivery_available) ==
    [title |-> title, price |-> price, location |-> location,
     date_posted |-> date_posted, image_url |-> image_url,
     product_url |-> product_url, description |-> description,
     seller_name |-> seller_name, seller_contact |-> seller_contact,
     is_delivery_available |-> is_delivery_available]

DT == <<" ", "D", "T">>
NO_TITLE == <<"N", "o", " ", "t", "i", "t", "l", "e">>

\* price of a <data> element: its value attribute with " DT", else its text
card_price(data) ==
    IF ~IsSome(data) THEN None
    ELSE IF Truthy(Get(data).value) THEN Some(Get(Get(data).value) \o DT)
    ELSE IF Get(data).text # << >> THEN Some(strip(Get(data).text))
    ELSE None

\* title of a card: the heading's inner text, "No title" when there is no heading
card_title(h2) == IF IsSome(h2) THEN Get(h2) ELSE NO_TITLE

\* location and date of a card, as <<location, date_posted>>
card_location(loc) ==
    IF ~Truthy(loc) THEN <<None, None>>
    ELSE LET parts == split(Get(loc))
         IN IF Len(parts) >= 2
            THEN <<Some(strip(parts[1])), Some(strip(parts[2]))>>
            ELSE <<Some(strip(Get(loc))), None>>

\* src of the first <img>, None without one
card_image(img) == IF IsSome(img) THEN Get(img) ELSE None

\* href of the first <a>, "" without one; site-prefixed when relative.  The
\* result is None when the link has no href attribute.
card_url(a) ==
    LET relative_url == IF IsSome(a) THEN Get(a) ELSE Some(<< >>)
    IN IF Truthy(relative_url) /\ ~startswith(Get(relative_url), <<"h", "t", "t", "p">>)
       THEN Some(SITE \o Get(relative_url))
       ELSE relative_url

\* extract_product_info: Some(Product), or None when the card is dropped.  A
\* DOM call that raises, and a Product that fails validation (product_url
\* None), both end in the except branch, which returns None.
extract_product_info(element) ==
    IF element.raises THEN None
    ELSE LET title == card_title(element.h2)
             ld == card_location(element.loc)
             product_url == card_url(element.a)
         IN IF title # << >> /\ strip(title) # << >>
            THEN IF ~IsSome(product_url) THEN None
                 ELSE Some(Product(strip(title), card_price(element.data), ld[1],
                                   ld[2], card_image(element.img),
                                   Get(product_url), None, None, None, FALSE))
            ELSE None

\* the loop over the article elements of scrape_products_per_page: the
\* products of the elements that gave one, in the order of the elements
RECURSIVE extract_all(_)
extract_all(elements) ==
    IF elements = << >> THEN << >>
    ELSE LET product_data == extract_product_info(Head(elements))
         IN (IF IsSome(product_data) THEN <<Get(product_data)>> ELSE << >>)
            \o extract_all(Tail(elements))

-----------------------------------------------------------------------------
(* Detail Extractor: the field extraction of get_product_page_info *)

TEL == <<"T", "e", "l", ":">>

\* str.lower() on the letters the model uses
lowerChar(c) ==
    CASE c = "O" -> "o"
      [] c = "U" -> "u"
      [] c = "I" -> "i"
      [] c = "N" -> "n"
      [] OTHER   -> c

lower(s) == [i \in 1..Len(s) |-> lowerChar(s[i])]

detail_title(title_elem) ==
    IF IsSome(title_elem) /\ Get(title_elem) # << >> /\ strip(Get(title_elem)) # << >>
    THEN strip(Get(title_elem))
    ELSE NO_TITLE

detail_seller(seller_elem) ==
    IF IsSome(seller_elem) /\ Get(seller_elem) # << >> /\ Len(strip(Get(seller_elem))) > 0
    THEN Some(strip(Get(seller_elem)))
    ELSE None

detail_price(data) ==
    IF ~IsSome(data) THEN None
    ELSE IF Truthy(Get(data).value) THEN Some(Get(Get(data).value) \o DT)
    ELSE IF Get(data).text # << >> THEN Some(strip(Get(data).text))
    ELSE None

\* the description: Some(text), or None when the variable was never bound
\* (no description paragraph on the page)
detail_description(description_elem) ==
    IF ~IsSome(description_elem) THEN None
    ELSE LET full_text == Get(description_elem)
             i == find(full_text, TEL)
         IN IF i # 0
            THEN Some(collapse(strip(SubSeq(full_text, 1, i - 1))))
            ELSE Some(strip(full_text))

\* location and date: [raised |-> FALSE, location, date_posted], or
\* [raised |-> TRUE] when text_elems[1] does not exist (IndexError)
detail_location(location_elem) ==
    IF ~Truthy(location_elem)
    THEN [raised |-> FALSE, location |-> None, date_posted |-> None]
    ELSE LET text_elems == split(Get(location_elem))
         IN IF Len(text_elems) < 2 THEN [raised |-> TRUE]
            ELSE [raised |-> FALSE,
                  location |-> Some(strip(text_elems[1])),
                  date_posted |-> Some(strip(text_elems[2]))]

detail_delivery(container) ==
    /\ IsSome(container)
    /\ IsSome(Get(container))
    /\ Get(Get(container)) # << >>
    /\ strip(lower(Get(Get(container)))) = <<"o", "u", "i">>

\* the seller's phone: every failure inside is caught and leaves it absent
detail_contact(buttons, tel) ==
    IF buttons = 0 THEN None          \* no button: nothing is clicked
    ELSE IF buttons < 2 THEN None     \* buttons[1]: IndexError, caught
    ELSE IF ~IsSome(tel) THEN None    \* wait_for_selector timed out, caught
    ELSE IF Get(tel) = << >> THEN Some(<< >>)
    ELSE Some(strip(SubSeq(Get(tel), 5, Len(Get(tel)))))

detail_image(img) == IF IsSome(img) THEN Get(img) ELSE None

INDEX_ERROR == <<"list index out of range">>
UNBOUND_ERROR == <<"cannot access local variable 'description' where it is not associated with a value">>
EXTRACT_PREFIX == <<"Failed to extract product info: ">>

\* lines 322-420: [raised |-> FALSE, product], or [raised |-> TRUE, error]
\* with the text of the exception raised inside the try
detail_extract(dom, product_url) ==
    LET ld == detail_location(dom.loc)
        description == detail_description(dom.desc)
    IN IF ld.raised THEN [raised |-> TRUE, error |-> INDEX_ERROR]
       ELSE IF ~IsSome(description) THEN [raised |-> TRUE, error |-> UNBOUND_ERROR]
       ELSE [raised |-> FALSE,
             product |-> Product(detail_title(dom.title), detail_price(dom.data),
                                 ld.location, ld.date_posted, detail_image(dom.img),
                                 product_url, description, detail_seller(dom.seller),
                                 detail_contact(dom.buttons, dom.tel),
                                 detail_delivery(dom.delivery))]

-----------------------------------------------------------------------------
(* The site and the requests the model draws from *)

PAGE_SIZE == 30

\* a well-formed card of results page p
ValidCard(p, i) ==
    [raises |-> FALSE,
     h2 |-> Some(<<"P", ToString(p), "-", ToString(i)>>),
     data |-> Some([value |-> Some(<<"1", "5", "0">>), text |-> <<"1", "5", "0">>]),
     loc |-> Some(<<"T", ",", " ", "2", "d">>),
     img |-> Some(Some(<<"i", ".", "j", "p", "g">>)),
     a |-> Some(Some(<<"/", "i", "/", ToString(p), "/", ToString(i)>>))]

\* the first n well-formed cards of results page p
ValidCards(p, n) == [i \in 1..n |-> ValidCard(p, i)]

BlankCard == [raises |-> FALSE, h2 |-> Some(<<" ", "\n">>), data |-> None,
              loc |-> None, img |-> None, a |-> Some(Some(<<"/", "b">>))]

RaisingCard == [raises |-> TRUE, h2 |-> None, data |-> None,
                loc |-> None, img |-> None, a |-> None]

\* what the site may serve for results page p: no article at all, a full page,
\* a short page, a full page plus a card that is dropped, only dropped cards
ListingPages(p) ==
    { << >>,
      ValidCards(p, PAGE_SIZE),
      ValidCards(p, 12),
      ValidCards(p, PAGE_SIZE) \o <<BlankCard>>,
      <<BlankCard, RaisingCard>> }

DetailPages ==
    [title : {None, Some(<<" ">>), Some(<<"a", " ">>)},
     seller : {None, Some(<<"s", " ">>)},
     data : {None, Some([value |-> None, text |-> <<" ", "9", " ">>])},
     desc : {None, Some(<<" ", "G", " ">>),
             Some(<<"G", "\n", " ", "p", ".", " ", "T", "e", "l", ":", " ", "1">>)},
     loc : {None, Some(<<"T">>), Some(<<"T", ",", " ", "d">>),
            Some(<<"T", ",", "d", ",", "x">>)},
     delivery : {None, Some(None), Some(Some(<<"O", "u", "i", " ">>))},
     buttons : 0..2,
     tel : {None, Some(<<"T", "e", "l", ":", "2", "2">>)},
     img : {None, Some(Some(<<"i">>))}]

ProductUrls ==
    { SITE \o <<"/", "i", "t", "e", "m", "/", "1">>,
      SITE \o <<".", "e", "v", "i", "l", "/">>,
      <<"h", "t", "t", "p", ":", "/", "/", "x">> }

MinPrices == {None, Some(50)}
MaxPrices == {None, Some(10)}

QUERY == Some(<<"S", " ", "2", "0">>)
CATEGORY == Some(<<"I", "n", "f", "o">>)
SUBCATEGORY == Some(<<"T", "e", "l">>)

\* errors of the browser capability, as the text of the exception
LAUNCH_ERROR == <<"browser launch failed">>
CONTEXT_ERROR == <<"context creation failed">>
NEWPAGE_ERROR == <<"page creation failed">>
GOTO_ERROR == <<"navigation failed">>
TIMEOUT_ERROR == <<"Timeout 10000ms exceeded">>
DOM_ERROR == <<"execution context was destroyed">>

-----------------------------------------------------------------------------
(* Init, and the end of a request *)

Init ==
    /\ pc = "idle"
    /\ req = [kind |-> "none"]
    /\ resp = None
    /\ all_products = << >>
    /\ current_page = 0
    /\ url = << >>
    /\ open = 0
    /\ page = << >>
    /\ ret = << >>
    /\ exc = None
    /\ log = << >>
    /\ navs = << >>
    /\ launches = 0
    /\ call = [fn |-> "none"]

\* the response has been sent; the next request starts from a fresh handler
Done ==
    /\ pc = "responded"
    /\ pc' = "idle"
    /\ req' = [kind |-> "none"]
    /\ resp' = None
    /\ all_products' = << >>
    /\ current_page' = 0
    /\ url' = << >>
    /\ page' = << >>
    /\ ret' = << >>
    /\ exc' = None
    /\ log' = << >>
    /\ navs' = << >>
    /\ launches' = 0
    /\ UNCHANGED <<open, call>>

-----------------------------------------------------------------------------
(* GET /search and the Pagination Controller *)

ClientError(detail) == [status |-> 400, detail |-> detail]

\* the price range check of search_products
price_range_invalid(min_price, max_price) ==
    IsSome(min_price) /\ IsSome(max_price) /\ Get(min_price) > Get(max_price)

\* search_products up to the call of scrape_products
SearchRequest ==
    /\ pc = "idle"
    /\ \E min_price \in MinPrices, max_price \in MaxPrices, max_pages \in 1..MaxPages :
          /\ req' = [kind |-> "search", min_price |-> min_price,
                     max_price |-> max_price, max_pages |-> max_pages]
          /\ IF price_range_invalid(min_price, max_price)
             THEN /\ resp' = Some(ClientError(<<"min_price cannot be greater than max_price">>))
                  /\ pc' = "responded"
                  /\ UNCHANGED <<all_products, current_page>>
             ELSE /\ resp' = None
                  /\ pc' = "sp_loop"
                  /\ all_products' = << >>
                  /\ current_page' = 1
    /\ UNCHANGED <<url, open, page, ret, exc, log, navs, launches, call>>

\* a variant of the loop condition that is off by one
ScrapeLoop_off_by_one ==
    /\ pc = "sp_loop"
    /\ IF current_page <= req.max_pages + 1
       THEN /\ url' = build_url(QUERY, CATEGORY, SUBCATEGORY, None, None,
                                req.min_price, req.max_price, Some(current_page))
            /\ pc' = "pp_launch"
       ELSE /\ pc' = "sp_return"
            /\ UNCHANGED url
    /\ UNCHANGED <<req, resp, all_products, current_page, open, page, ret, exc,
                   log, navs, launches, call>>

\* the loop condition and the URL of the current page
ScrapeLoop ==
    /\ pc = "sp_loop"
    /\ IF current_page <= req.max_pages
       THEN /\ url' = build_url(QUERY, CATEGORY, SUBCATEGORY, None, None,
                                req.min_price, req.max_price, Some(current_page))
            /\ pc' = "pp_launch"
       ELSE /\ pc' = "sp_return"
            /\ UNCHANGED url
    /\ UNCHANGED <<req, resp, all_products, current_page, open, page, ret, exc,
                   log, navs, launches, call>>

\* p.firefox.launch: outside the try, so a failure leaves scrape_products_per_page
\* at once, with no browser to close
PageLaunch ==
    /\ pc = "pp_launch"
    /\ \/ /\ open' = open + 1
          /\ launches' = launches + 1
          /\ ret' = << >>
          /\ pc' = "pp_context"
          /\ UNCHANGED exc
       \/ /\ exc' = Some(LAUNCH_ERROR)
          /\ pc' = "sp_except"
          /\ UNCHANGED <<open, launches, ret>>
    /\ UNCHANGED <<req, resp, all_products, current_page, url, page, log, navs, call>>

PageContext ==
    /\ pc = "pp_context"
    /\ \/ /\ pc' = "pp_newpage"
          /\ UNCHANGED exc
       \/ /\ exc' = Some(CONTEXT_ERROR)
          /\ pc' = "pp_except"
    /\ UNCHANGED <<req, resp, all_products, current_page, url, open, page, ret,
                   log, navs, launches, call>>

PageNewPage ==
    /\ pc = "pp_newpage"
    /\ \/ /\ pc' = "pp_goto"
          /\ UNCHANGED exc
       \/ /\ exc' = Some(NEWPAGE_ERROR)
          /\ pc' = "pp_except"
    /\ UNCHANGED <<req, resp, all_products, current_page, url, open, page, ret,
                   log, navs, launches, call>>

\* page_obj.goto(url): the site answers with some results page, or the
\* navigation fails
PageGoto ==
    /\ pc = "pp_goto"
    /\ navs' = Append(navs, url)
    /\ \/ /\ page' \in ListingPages(current_page)
          /\ pc' = "pp_wait"
          /\ UNCHANGED exc
       \/ /\ exc' = Some(GOTO_ERROR)
          /\ pc' = "pp_except"
          /\ UNCHANGED page
    /\ UNCHANGED <<req, resp, all_products, current_page, url, open, ret, log,
                   launches, call>>

\* wait_for_selector('article'): times out when the page holds no article
PageWait ==
    /\ pc = "pp_wait"
    /\ IF Len(page) > 0
       THEN /\ pc' = "pp_extract"
            /\ UNCHANGED exc
       ELSE /\ exc' = Some(TIMEOUT_ERROR)
            /\ pc' = "pp_except"
    /\ UNCHANGED <<req, resp, all_products, current_page, url, open, page, ret,
                   log, navs, launches, call>>

\* query_selector_all('article') and the loop over the elements
PageExtract ==
    /\ pc = "pp_extract"
    /\ \/ /\ exc' = Some(DOM_ERROR)
          /\ pc' = "pp_except"
          /\ UNCHANGED ret
       \/ /\ ret' = extract_all(page)
          /\ pc' = "pp_finally"
          /\ UNCHANGED exc
    /\ UNCHANGED <<req, resp, all_products, current_page, url, open, page, log,
                   navs, launches, call>>

\* except Exception: raise ValueError("Scraping failed: ... for page url ...")
PageExcept ==
    /\ pc = "pp_except"
    /\ exc' = Some(<<"Scraping failed: ">> \o Get(exc) \o <<" for page url ">> \o url)
    /\ pc' = "pp_finally"
    /\ UNCHANGED <<req, resp, all_products, current_page, url, open, page, ret,
                   log, navs, launches, call>>

\* a variant that closes the browser on the success path only
PageClose_on_success ==
    /\ pc = "pp_finally"
    /\ open' = IF IsSome(exc) THEN open ELSE open - 1
    /\ pc' = IF IsSome(exc) THEN "sp_except" ELSE "sp_after"
    /\ UNCHANGED <<req, resp, all_products, current_page, url, page, ret, exc,
                   log, navs, launches, call>>

\* finally: await browser.close(); then the return or the raise takes effect
PageClose ==
    /\ pc = "pp_finally"
    /\ open' = open - 1
    /\ pc' = IF IsSome(exc) THEN "sp_except" ELSE "sp_after"
    /\ UNCHANGED <<req, resp, all_products, current_page, url, page, ret, exc,
                   log, navs, launches, call>>

\* a variant of last_page that also takes a full page for the last one
last_page_inclusive(products_per_page) == Len(products_per_page) <= PAGE_SIZE

\* whether scrape_products stops after a page that returned these products
last_page(products_per_page) == Len(products_per_page) < PAGE_SIZE

\* lines 198-213: the page returned products_per_page
ScrapeAfterPage ==
    /\ pc = "sp_after"
    /\ log' = Append(log, [page |-> current_page, raised |-> FALSE, empty |-> FALSE,
                          products |-> ret])
    /\ IF ret = << >>
       THEN /\ pc' = "sp_return"
            /\ UNCHANGED <<all_products, current_page>>
       ELSE /\ all_products' = all_products \o ret
            /\ IF last_page(ret)
               THEN /\ pc' = "sp_return"
                    /\ UNCHANGED current_page
               ELSE /\ current_page' = current_page + 1
                    /\ pc' = "sp_sleep"
    /\ UNCHANGED <<req, resp, url, open, page, ret, exc, navs, launches, call>>

\* await asyncio.sleep(2)
ScrapeSleep ==
    /\ pc = "sp_sleep"
    /\ pc' = "sp_loop"
    /\ UNCHANGED <<req, resp, all_products, current_page, url, open, page, ret,
                   exc, log, navs, launches, call>>

\* whether the exception a page scrape raised is the timeout of the wait for
\* an article, i.e. the results page loaded and held no listing element
no_article(e) == startswith(e, <<"Scraping failed: ">> \o TIMEOUT_ERROR)

\* a variant of the except branch that gives up the search on the first
\* page failure
ScrapeExcept_abort ==
    /\ pc = "sp_except"
    /\ log' = Append(log, [page |-> current_page, raised |-> TRUE,
                          empty |-> no_article(Get(exc)), products |-> << >>])
    /\ resp' = Some([status |-> 200, success |-> FALSE, total_products |-> 0,
                     products |-> << >>, error |-> exc])
    /\ exc' = None
    /\ pc' = "responded"
    /\ UNCHANGED <<req, all_products, current_page, url, open, page, ret, navs,
                   launches, call>>

\* lines 215-218: the page scrape raised
ScrapeExcept ==
    /\ pc = "sp_except"
    /\ log' = Append(log, [page |-> current_page, raised |-> TRUE,
                          empty |-> no_article(Get(exc)), products |-> << >>])
    /\ current_page' = current_page + 1
    /\ exc' = None
    /\ pc' = "sp_loop"
    /\ UNCHANGED <<req, resp, all_products, url, open, page, ret, navs, launches, call>>

\* the dictionary scrape_products returns
search_result(products) ==
    [status |-> 200, success |-> TRUE, total_products |-> Len(products),
     products |-> products, error |-> None]

\* lines 220-224 and SearchResponse(**result)
ScrapeReturn ==
    /\ pc = "sp_return"
    /\ resp' = Some(search_result(all_products))
    /\ pc' = "responded"
    /\ UNCHANGED <<req, all_products, current_page, url, open, page, ret, exc,
                   log, navs, launches, call>>

-----------------------------------------------------------------------------
(* GET /product and get_product_page_info *)

\* a variant of the origin check that forgets the slash ending the origin
url_invalid_no_slash(u) == ~startswith(u, SITE)

\* the origin check of get_product_info
url_invalid(u) == ~startswith(u, SITE \o <<"/">>)

\* get_product_info up to the call of get_product_page_info
ProductRequest ==
    /\ pc = "idle"
    /\ \E u \in ProductUrls :
          /\ req' = [kind |-> "product", url |-> u]
          /\ IF url_invalid(u)
             THEN /\ resp' = Some(ClientError(<<"URL must be a valid Tayara.tn product URL">>))
                  /\ pc' = "responded"
                  /\ UNCHANGED url
             ELSE /\ resp' = None
                  /\ url' = u
                  /\ pc' = "gp_launch"
    /\ UNCHANGED <<all_products, current_page, open, page, ret, exc, log, navs,
                   launches, call>>

\* p.firefox.launch: outside the try; a failure reaches the handler as it is
DetailLaunch ==
    /\ pc = "gp_launch"
    /\ \/ /\ open' = open + 1
          /\ launches' = launches + 1
          /\ pc' = "gp_context"
          /\ UNCHANGED exc
       \/ /\ exc' = Some(LAUNCH_ERROR)
          /\ pc' = "pr_except"
          /\ UNCHANGED <<open, launches>>
    /\ UNCHANGED <<req, resp, all_products, current_page, url, page, ret, log,
                   navs, call>>

DetailContext ==
    /\ pc = "gp_context"
    /\ \/ /\ pc' = "gp_newpage"
          /\ UNCHANGED exc
       \/ /\ exc' = Some(CONTEXT_ERROR)
          /\ pc' = "gp_except"
    /\ UNCHANGED <<req, resp, all_products, current_page, url, open, page, ret,
                   log, navs, launches, call>>

DetailNewPage ==
    /\ pc = "gp_newpage"
    /\ \/ /\ pc' = "gp_goto"
          /\ UNCHANGED exc
       \/ /\ exc' = Some(NEWPAGE_ERROR)
          /\ pc' = "gp_except"
    /\ UNCHANGED <<req, resp, all_products, current_page, url, open, page, ret,
                   log, navs, launches, call>>

\* page.goto(url): the site answers with some product page, or the navigation fails
DetailGoto ==
    /\ pc = "gp_goto"
    /\ navs' = Append(navs, url)
    /\ \/ /\ \E dom \in DetailPages : page' = <<dom>>
          /\ pc' = "gp_wait"
          /\ UNCHANGED exc
       \/ /\ exc' = Some(GOTO_ERROR)
          /\ pc' = "gp_except"
          /\ UNCHANGED page
    /\ UNCHANGED <<req, resp, all_products, current_page, url, open, ret, log,
                   launches, call>>

\* wait_for_selector('body')
DetailWait ==
    /\ pc = "gp_wait"
    /\ \/ /\ pc' = "gp_extract"
          /\ UNCHANGED exc
       \/ /\ exc' = Some(TIMEOUT_ERROR)
          /\ pc' = "gp_except"
    /\ UNCHANGED <<req, resp, all_products, current_page, url, open, page, ret,
                   log, navs, launches, call>>

\* lines 322-420: the fields and the Product
DetailExtract ==
    /\ pc = "gp_extract"
    /\ LET r == detail_extract(page[1], url)
       IN IF r.raised
          THEN /\ exc' = Some(r.error)
               /\ pc' = "gp_except"
               /\ UNCHANGED ret
          ELSE /\ ret' = <<r.product>>
               /\ pc' = "gp_finally"
               /\ UNCHANGED exc
    /\ UNCHANGED <<req, resp, all_products, current_page, url, open, page, log,
                   navs, launches, call>>

\* except Exception: raise ValueError("Failed to extract product info: ...")
DetailExcept ==
    /\ pc = "gp_except"
    /\ exc' = Some(EXTRACT_PREFIX \o Get(exc))
    /\ pc' = "gp_finally"
    /\ UNCHANGED <<req, resp, all_products, current_page, url, open, page, ret,
                   log, navs, launches, call>>

\* finally: await browser.close()
DetailClose ==
    /\ pc = "gp_finally"
    /\ open' = open - 1
    /\ pc' = IF IsSome(exc) THEN "pr_except" ELSE "pr_return"
    /\ UNCHANGED <<req, resp, all_products, current_page, url, page, ret, exc,
                   log, navs, launches, call>>

ERROR_TITLE == <<"E", "r", "r", "o", "r">>

\* return ProductResponse(success=True, product=product)
ProductReturn ==
    /\ pc = "pr_return"
    /\ resp' = Some([status |-> 200, success |-> TRUE, product |-> ret[1],
                     error |-> None])
    /\ pc' = "responded"
    /\ UNCHANGED <<req, all_products, current_page, url, open, page, ret, exc,
                   log, navs, launches, call>>

\* a variant of the failure response that reports the wrapped cause only
error_response_unwrapped(e, u) ==
    [status |-> 200, success |-> FALSE,
     product |-> Product(ERROR_TITLE, None, None, None, None, u, None, None,
                         None, FALSE),
     error |-> Some(IF startswith(e, EXTRACT_PREFIX) THEN Tail(e) ELSE e)]

\* the response of the handler's except branches (ValueError and Exception
\* build the same response)
error_response(e, u) ==
    [status |-> 200, success |-> FALSE,
     product |-> Product(ERROR_TITLE, None, None, None, None, u, None, None,
                         None, FALSE),
     error |-> Some(e)]

ProductExcept ==
    /\ pc = "pr_except"
    /\ resp' = Some(error_response(Get(exc), req.url))
    /\ pc' = "responded"
    /\ UNCHANGED <<req, all_products, current_page, url, open, page, ret, exc,
                   log, navs, launches, call>>

-----------------------------------------------------------------------------
(* The service *)

Next ==
    \/ SearchRequest \/ ScrapeLoop \/ PageLaunch \/ PageContext \/ PageNewPage
    \/ PageGoto \/ PageWait \/ PageExtract \/ PageExcept \/ PageClose
    \/ ScrapeAfterPage \/ ScrapeSleep \/ ScrapeExcept \/ ScrapeReturn
    \/ ProductRequest \/ DetailLaunch \/ DetailContext \/ DetailNewPage
    \/ DetailGoto \/ DetailWait \/ DetailExtract \/ DetailExcept \/ DetailClose
    \/ ProductReturn \/ ProductExcept
    \/ Done

Spec == Init /\ [][Next]_vars

\* the service answering /search requests only
NextSearch ==
    \/ SearchRequest \/ ScrapeLoop \/ PageLaunch \/ PageContext \/ PageNewPage
    \/ PageGoto \/ PageWait \/ PageExtract \/ PageExcept \/ PageClose
    \/ ScrapeAfterPage \/ ScrapeSleep \/ ScrapeExcept \/ ScrapeReturn
    \/ Done

\* every awaited call is bounded by a timeout, so a handler that can take a
\* step takes it
FairSearch == Init /\ [][NextSearch]_vars /\ WF_vars(NextSearch)

-----------------------------------------------------------------------------
(* Direct calls of the URL Builder *)

FieldValues == {None, Some(<< >>), Some(<<"a", " ", "b">>), Some(<<"a", "/", "b">>)}
PriceValues == {None, Some(0), Some(50)}
PageValues == {None, Some(0), Some(2)}

CallBuildUrl ==
    /\ call.fn = "none"
    /\ \E query \in FieldValues, category \in FieldValues,
          subcategory \in FieldValues, city \in FieldValues,
          condition \in FieldValues, min_price \in PriceValues,
          max_price \in PriceValues, pg \in PageValues :
          call' = [fn |-> "build_url",
                   arg |-> [query |-> query, category |-> category,
                            subcategory |-> subcategory, city |-> city,
                            condition |-> condition, min_price |-> min_price,
                            max_price |-> max_price, page |-> pg],
                   ret |-> build_url(query, category, subcategory, city,
                                     condition, min_price, max_price, pg)]
    /\ UNCHANGED <<pc, req, resp, all_products, current_page, url, open, page,
                   ret, exc, log, navs, launches>>

CallEnd ==
    /\ call.fn # "none"
    /\ call' = [fn |-> "none"]
    /\ UNCHANGED <<pc, req, resp, all_products, current_page, url, open, page,
                   ret, exc, log, navs, launches>>

NextBuildUrl == CallBuildUrl \/ CallEnd

SpecBuildUrl == Init /\ [][NextBuildUrl]_vars

-----------------------------------------------------------------------------
(* Direct calls of the Listing Extractor *)

\* every text over {"T", ",", " "} of at most n characters
RECURSIVE Texts(_)
Texts(n) ==
    IF n = 0 THEN {<< >>}
    ELSE LET shorter == Texts(n - 1)
         IN shorter \cup {Append(t, c) : t \in shorter, c \in {"T", ",", " "}}

NoTitleCard == [raises |-> FALSE, h2 |-> None, data |-> None,
                loc |-> Some(<<"T">>), img |-> None, a |-> Some(Some(<<"/", "n">>))]

\* the cards a single call of extract_product_info is tried on
Elements ==
    [raises : BOOLEAN,
     h2 : {None, Some(<< >>), Some(<<" ">>), Some(<<" ", "a", " ">>)},
     data : {None, Some([value |-> Some(<<"1", "5", "0">>), text |-> <<"x">>]),
             Some([value |-> None, text |-> <<" ", "9", " ">>])},
     loc : {None} \cup {Some(t) : t \in Texts(MaxLocLen)},
     img : {None, Some(Some(<<"i">>))},
     a : {None, Some(None), Some(Some(<<"/", "x">>)),
          Some(Some(<<"h", "t", "t", "p", ":", "/", "/", "x">>))}]

\* the cards of the pages the element loop is tried on
PageCards == {ValidCard(1, 1), BlankCard, RaisingCard, NoTitleCard}

RECURSIVE CardSeqs(_)
CardSeqs(n) ==
    IF n = 0 THEN {<< >>}
    ELSE LET shorter == CardSeqs(n - 1)
         IN shorter \cup {Append(cs, c) : cs \in shorter, c \in PageCards}

CallExtractInfo ==
    /\ call.fn = "none"
    /\ \E element \in Elements :
          call' = [fn |-> "extract_product_info", arg |-> element,
                   ret |-> extract_product_info(element)]
    /\ UNCHANGED <<pc, req, resp, all_products, current_page, url, open, page,
                   ret, exc, log, navs, launches>>

CallExtractAll ==
    /\ call.fn = "none"
    /\ \E elements \in CardSeqs(MaxCards) :
          call' = [fn |-> "extract_all", arg |-> elements,
                   ret |-> extract_all(elements)]
    /\ UNCHANGED <<pc, req, resp, all_products, current_page, url, open, page,
                   ret, exc, log, navs, launches>>

NextListing == CallExtractInfo \/ CallExtractAll \/ CallEnd

SpecListing == Init /\ [][NextListing]_vars

-----------------------------------------------------------------------------
(* Properties of the Pagination Controller *)

SearchAnswered ==
    pc = "responded" /\ req.kind = "search" /\ Get(resp).status = 200

Counts == [i \in 1..Len(log) |-> Len(log[i].products)]

Aggregate == Flatten([i \in 1..Len(log) |-> log[i].products])

NoPageRaised == \A i \in 1..Len(log) : ~log[i].raised

PageUrl(i) == build_url(QUERY, CATEGORY, SUBCATEGORY, None, None,
                        req.min_price, req.max_price, Some(i))

\* C1: when no page scrape raises, scrape_products scrapes pages 1, 2, ... and
\* stops right after the first page with fewer than 30 products (0 included)
\* or after page max_pages; the products returned are those of the scraped
\* pages, concatenated in page order, and total_products is their number.
\* Counts [30, 30, 12] end after page 3 with 72 products, [0] after page 1
\* with none and success = true.
C1_StopsAfterShortPage ==
    (SearchAnswered /\ NoPageRaised) =>
        LET k == Len(log)
            r == Get(resp)
        IN /\ 1 <= k /\ k <= req.max_pages
           /\ Len(navs) = k
           /\ \A i \in 1..k : log[i].page = i /\ navs[i] = PageUrl(i)
           /\ \A i \in 1..(k - 1) : Counts[i] >= 30
           /\ (k = req.max_pages \/ Counts[k] < 30)
           /\ r.products = Aggregate
           /\ r.total_products = Len(Aggregate)
           /\ r.success
           /\ (Counts = <<30, 30, 12>> => r.total_products = 72)
           /\ (Counts = <<0>> => r.total_products = 0)

C1_Witness ==
    /\ SearchAnswered /\ NoPageRaised
    /\ Counts = <<30, 30, 12>>
    /\ Get(resp).total_products = 72

InSearch == req.kind = "search" /\ pc \notin {"idle", "responded"}

\* C2: a page scrape that raises does not abort the search: the products of
\* the earlier pages stay in the aggregate, the page after a failed page i is
\* i + 1 (or the loop ends, when i = max_pages), and the result is always
\* success = true without error text, whichever pages failed.
C2_PageFailureSwallowed ==
    /\ InSearch => all_products = Aggregate
    /\ SearchAnswered =>
          LET k == Len(log)
              r == Get(resp)
          IN /\ r.success /\ r.error = None
             /\ r.products = Aggregate
             /\ \A i \in 1..k :
                   log[i].raised =>
                      IF i < k THEN log[i + 1].page = log[i].page + 1
                      ELSE log[i].page = req.max_pages

C2_Witness ==
    /\ SearchAnswered
    /\ Len(log) = 3
    /\ ~log[1].raised /\ log[2].raised /\ ~log[3].raised
    /\ Get(resp).total_products = 42

\* C8: within one scrape_products run pages are scraped in strictly
\* increasing page order, one at a time (the browser of a page is closed
\* before the next page's scrape starts), each page index at most once, at
\* most max_pages scrapes are made, and the run terminates.
C8_Ordered ==
    req.kind = "search" =>
        /\ \A i \in 1..Len(log) : \A j \in 1..Len(log) :
              i < j => log[i].page < log[j].page
        /\ Len(log) <= req.max_pages
        /\ launches <= req.max_pages
        /\ Len(navs) <= launches
        /\ open <= 1
        /\ pc \in {"pp_launch", "pp_context", "pp_newpage", "pp_goto", "pp_wait",
                   "pp_extract", "pp_except", "pp_finally", "sp_after", "sp_except"} =>
              /\ current_page <= req.max_pages
              /\ \A i \in 1..Len(log) : log[i].page < current_page
        /\ pc \in {"sp_loop", "pp_launch"} => open = 0 /\ launches <= Len(log)

C8_SequentialAndTerminates ==
    /\ []C8_Ordered
    /\ (pc = "sp_loop") ~> (pc = "responded")

C8_Witness ==
    /\ pc = "pp_launch"
    /\ current_page = 3
    /\ Len(log) = 2
    /\ log[1].raised /\ ~log[2].raised

-----------------------------------------------------------------------------
(* Properties of the browser sessions and of the HTTP handlers *)

InsideTry ==
    pc \in {"pp_context", "pp_newpage", "pp_goto", "pp_wait", "pp_extract",
            "pp_except", "pp_finally", "gp_context", "gp_newpage", "gp_goto",
            "gp_wait", "gp_extract", "gp_except", "gp_finally"}

\* C3: every browser launched by scrape_products_per_page or
\* get_product_page_info is closed before that call returns or raises, on
\* every exit path after the launch; no call ends with its browser open.
C3_BrowserClosed ==
    /\ open <= 1
    /\ InsideTry <=> open = 1

C3_Witness ==
    /\ pc = "sp_except"
    /\ launches = 2
    /\ open = 0
    /\ startswith(Get(exc), <<"Scraping failed: ">> \o DOM_ERROR)

ProductAnswered == pc = "responded" /\ req.kind = "product"

OriginOk(u) == startswith(u, SITE \o <<"/">>)

\* C6: for a /product request whose URL passes the origin check, an
\* exception of the Detail Extractor is never propagated: the response has
\* success = false, a placeholder product with title "Error" and the input
\* URL, and the exception text as error; success = true is returned only
\* when the extractor returned a Product.
C6_ExtractorFailureAnswered ==
    (ProductAnswered /\ OriginOk(req.url)) =>
        LET r == Get(resp)
        IN /\ r.status = 200
           /\ IF IsSome(exc)
              THEN /\ ~r.success
                   /\ r.product.title = <<"E", "r", "r", "o", "r">>
                   /\ r.product.product_url = req.url
                   /\ r.error = exc
              ELSE /\ r.success
                   /\ r.error = None
                   /\ ret = <<r.product>>
                   /\ r.product.product_url = req.url

C6_Witness ==
    /\ ProductAnswered
    /\ exc = Some(EXTRACT_PREFIX \o TIMEOUT_ERROR)
    /\ ~Get(resp).success

BadRequest ==
    \/ /\ req.kind = "search"
       /\ IsSome(req.min_price) /\ IsSome(req.max_price)
       /\ Get(req.min_price) > Get(req.max_price)
    \/ /\ req.kind = "product"
       /\ ~OriginOk(req.url)

\* C7: a /search request with min_price > max_price and a /product request
\* whose url does not start with the site's origin end in a 400 client error,
\* and no browser is launched and no page navigated while handling them.
C7_RejectedBeforeScraping ==
    BadRequest =>
        /\ pc = "responded"
        /\ Get(resp).status = 400
        /\ launches = 0
        /\ navs = << >>
        /\ open = 0

C7_Witness ==
    /\ req.kind = "product"
    /\ req.url = SITE \o <<".", "e", "v", "i", "l", "/">>
    /\ Get(resp).status = 400

\* a detail page on which every element that is present is well formed: the
\* location text, when there is one, holds a comma
WellFormed(dom) == ~Truthy(dom.loc) \/ find(Get(dom.loc), <<",">>) # 0

\* C5: once navigation and the body wait have succeeded, each field of the
\* detail page is extracted on its own and its absence is tolerated: for
\* every subset of missing elements the call returns a Product in which
\* exactly the fields of the missing elements are absent or default, and it
\* does not raise.
C5_AbsenceTolerated ==
    (/\ ProductAnswered
     /\ page # << >>
     /\ WellFormed(page[1])
     /\ exc # Some(EXTRACT_PREFIX \o TIMEOUT_ERROR)) =>
        LET r == Get(resp)
            dom == page[1]
        IN /\ r.success
           /\ IsSome(r.product.description) <=> IsSome(dom.desc)
           /\ IsSome(r.product.seller_name) <=> IsSome(dom.seller)
           /\ IsSome(r.product.price) <=> IsSome(dom.data)
           /\ IsSome(r.product.location) <=> IsSome(dom.loc)
           /\ IsSome(r.product.image_url) <=> IsSome(dom.img)
           /\ IsSome(r.product.seller_contact) <=> (dom.buttons >= 2 /\ IsSome(dom.tel))

-----------------------------------------------------------------------------
(* Properties of the URL Builder *)

\* the path the claim describes: one "/<segment>" for every present field,
\* in the fixed order, then one trailing slash
ExpectedPath(a) ==
    LET seg(prefix, v) == IF Truthy(v) THEN <<"/">> \o prefix \o quote(Get(v)) ELSE << >>
    IN BASE_URL \o seg(<<"c", "/">>, a.category) \o seg(<< >>, a.subcategory)
                \o seg(<<"l", "/">>, a.city) \o seg(<<"t", "/">>, a.condition)
                \o seg(<<"k", "/">>, a.query) \o <<"/">>

ExpectedQuery(a) ==
    LET params == (IF IsSome(a.min_price)
                   THEN << <<"minPrice=">> \o Digits(Get(a.min_price)) >> ELSE << >>)
               \o (IF IsSome(a.max_price)
                   THEN << <<"maxPrice=">> \o Digits(Get(a.max_price)) >> ELSE << >>)
               \o (IF IsSome(a.page) /\ Get(a.page) # 0
                   THEN << <<"page=">> \o Digits(Get(a.page)) >> ELSE << >>)
    IN IF params = << >> THEN << >> ELSE <<"?">> \o join(<<"&">>, params)

\* C9: build_url emits exactly the segments of the present fields, in the
\* order c/<category>, <subcategory>, l/<city>, t/<condition>, k/<query>,
\* percent-encoded, joined by single "/" and followed by one trailing slash;
\* absent fields leave no segment and no stray separator (no "//" after the
\* base path); the query string holds minPrice, maxPrice and page, in that
\* order, for those given, page whenever it is non-zero.
C9_BuildUrl ==
    call.fn = "build_url" =>
        /\ call.ret = ExpectedPath(call.arg) \o ExpectedQuery(call.arg)
        /\ find(SubSeq(call.ret, Len(BASE_URL) + 1, Len(call.ret)), <<"/", "/">>) = 0

-----------------------------------------------------------------------------
(* Properties of the Listing Extractor *)

ValidTitle(card) == IsSome(card.h2) /\ strip(Get(card.h2)) # << >>

RECURSIVE ValidTitles(_)
ValidTitles(cards) ==
    IF cards = << >> THEN << >>
    ELSE (IF ValidTitle(Head(cards)) THEN <<strip(Get(Head(cards).h2))>> ELSE << >>)
         \o ValidTitles(Tail(cards))

\* C4: a card whose title heading is missing, or whose title is blank after
\* trimming, yields no record; a page with N valid cards and M invalid ones
\* yields exactly N records, in DOM order, each with the non-blank title of
\* its card.
C4_InvalidCardsDropped ==
    call.fn = "extract_all" =>
        /\ Len(call.ret) = Len(ValidTitles(call.arg))
        /\ [i \in 1..Len(call.ret) |-> call.ret[i].title] = ValidTitles(call.arg)

\* C10: the location/date text of a card is split on the first comma only:
\* location is the trimmed text before it, date_posted the trimmed text after
\* it (all of it, further commas included); without a comma location is the
\* whole trimmed text and date_posted is absent.
C10_SplitOnFirstComma ==
    (/\ call.fn = "extract_product_info"
     /\ IsSome(call.ret)
     /\ Truthy(call.arg.loc)) =>
        LET text == Get(call.arg.loc)
            i == find(text, <<",">>)
            p == Get(call.ret)
        IN IF i = 0
           THEN p.location = Some(strip(text)) /\ p.date_posted = None
           ELSE /\ p.location = Some(strip(SubSeq(text, 1, i - 1)))
                /\ p.date_posted = Some(strip(SubSeq(text, i + 1, Len(text))))

-----------------------------------------------------------------------------
(* Properties of the Detail Extractor's location and date *)

\* C11: the Detail Extractor follows the comma-split rule of the Listing
\* Extractor: when the location text of a detail page holds no comma, the
\* call returns a Product whose location is the whole trimmed text and whose
\* date_posted is absent; it does not raise and the /product response is not
\* a failure.
C11_DetailLocationWithoutComma ==
    (/\ ProductAnswered
     /\ page # << >>
     /\ exc # Some(EXTRACT_PREFIX \o TIMEOUT_ERROR)
     /\ IsSome(page[1].desc)
     /\ Truthy(page[1].loc)
     /\ find(Get(page[1].loc), <<",">>) = 0) =>
        LET r == Get(resp)
        IN /\ r.success
           /\ r.error = None
           /\ r.product.location = Some(strip(Get(page[1].loc)))
           /\ r.product.date_posted = None

-----------------------------------------------------------------------------
(* End of results *)

\* the URLs of the results pages after page k
LaterPageUrls(k) == {PageUrl(m) : m \in (k + 1)..(MaxPages + 1)}

\* C12: when the results page with index k loads but holds no article
\* element, the run ends at page k without error: no page with an index
\* greater than k is navigated to, even when k < max_pages.
C12_EndOfResultsStops ==
    req.kind = "search" =>
        \A i \in 1..Len(log) :
            log[i].empty =>
                /\ \A j \in 1..Len(navs) : navs[j] \notin LaterPageUrls(log[i].page)
                /\ SearchAnswered => Get(resp).success

====
